---- MODULE Spec2Model ----
(***************************************************************************)
(* Model of glib-rs src/main_context_channel.rs: the channel that hands    *)
(* items from producer threads (Sender / SyncSender) to a GSource attached *)
(* to a GLib main context.                                                 *)
(*                                                                         *)
(* The queue mutex is a variable: every `lock()` is a step of its own and  *)
(* a thread keeps the mutex over the steps of its critical section.  A     *)
(* critical section is split wherever it reads state that is not guarded   *)
(* by the queue mutex a second time (g_source_is_destroyed, the GSource    *)
(* reference count), and at every Condvar::wait.                           *)
(***************************************************************************)
EXTENDS Integers, Sequences, FiniteSets, TLC

\* ---------------------------------------------------------------- bounds
\* Largest capacity given to MainContext::sync_channel (0 = rendezvous).
MaxBound == 1
\* Number of send / try_send calls the producer threads may start in all.
MaxSends == 3

\* The producer threads.  p1 owns the handle returned by
\* MainContext::channel / sync_channel; p2 gets one by Clone.
Producers == {"p1", "p2"}

\* Option<ChannelBound>::None
Unbounded == -1
\* No thread (owner of the free mutex, thread running finalize)
Nobody == "nobody"
\* Threads other than the producer threads: the thread that owns the main
\* context, and the holder of a Source found by find_source_by_id
LoopThread == "loop"
HolderThread == "holder"

\* The item of the n-th send of producer p, and the absence of an item
ItemOf(p, n) == <<p, n>>
NoItem == <<>>

VARIABLES
    bound,        \* (self.0).1 : Unbounded or ChannelBound.bound
    queue,        \* ChannelInner.queue
    source,       \* ChannelInner.source : NotAttached / Attached / Destroyed
    mutex,        \* owner of Mutex<ChannelInner>, Nobody when free
    strong,       \* Arc::strong_count(&channel.0)
    gref,         \* GSource reference count (0 before g_source_new)
    gDestroyed,   \* g_source_is_destroyed(source)
    ready_time,   \* g_source_get_ready_time(source) : 0 or -1
    inContext,    \* the GSource is attached to the main context
    holder,       \* a Source obtained by find_source_by_id is still alive
    fin,          \* finalize: none / begun / locked / done
    finBy,        \* thread whose g_source_unref runs finalize
    pc,           \* position of every producer thread
    handle,       \* Sender / SyncSender of the thread: none / held / dropped
    sent,         \* number of send / try_send calls started by the thread
    op,           \* last operation started by the thread
    item,         \* item of the last send / try_send of the thread
    res,          \* result of the last send / try_send of the thread
    ret,          \* item carried by that result (NoItem when none)
    startedGone,  \* history: the consumer was gone when that call started
    rx,           \* Receiver: held / attaching / attached / dropping / dropped
    lpc,          \* position of the main-loop thread
    inHand,       \* item popped by dispatch, not yet given to the callback
    has_callback, \* ChannelSource.callback is Some
    ended,        \* history: why dispatch returned G_SOURCE_REMOVE: none (it
                  \* did not) / Disconnected / Stop (Continue(false))
    enqueued,     \* history: items in the order of their push_back
    delivered,    \* history: items in the order the callback got them
    consumed,     \* history: items removed by try_recv
    takenBack     \* history: items removed by a producer (lines 146, 190)

chanVars == <<bound, queue, source, mutex, strong>>
gsrcVars == <<gref, gDestroyed, ready_time, inContext, holder, fin, finBy>>
prodVars == <<pc, handle, sent, op, item, res, ret, startedGone>>
loopVars == <<rx, lpc, inHand, has_callback, ended>>
histVars == <<enqueued, delivered, consumed, takenBack>>
vars == <<chanVars, gsrcVars, prodVars, loopVars, histVars>>

Bounds == {Unbounded} \cup (0 .. MaxBound)

\* ------------------------------------------------------------ ChannelInner

\* receiver_disconnected without the arm for an attached, destroyed source
receiver_disconnected_state_only == source = "Destroyed"

\* ChannelInner::receiver_disconnected
receiver_disconnected ==
    \/ source = "Destroyed"
    \/ source = "Attached" /\ gDestroyed

\* ChannelInner::set_ready_time: the ready time after the call
set_ready_time(t) == IF source = "Attached" THEN t ELSE ready_time

\* ChannelInner::source: the guard of the arm that returns Some(source)
source_alive == source = "Attached" /\ ~gDestroyed

\* The consumer side is gone: the unattached Receiver was dropped or the
\* task was finalized (Destroyed), or the task was destroyed / removed from
\* the main context
ConsumerGone == source = "Destroyed" \/ gDestroyed

\* VecDeque::push_front, where push_back is meant
push_front(q, x) == <<x>> \o q

\* VecDeque::push_back
push_back(q, x) == Append(q, x)

\* Threads asleep in Condvar::wait
Sleeping == {p \in Producers :
                pc[p] \in {"send_wait_space", "send_wait_handoff", "try_wait_handoff"}}

\* pc of a thread that left Condvar::wait and has to take the mutex again
Woken(s) == CASE s = "send_wait_space"   -> "send_woke_space"
              [] s = "send_wait_handoff" -> "send_woke_handoff"
              [] s = "try_wait_handoff"  -> "try_woke_handoff"
              [] OTHER -> s

\* Condvar::notify_one: one sleeping thread, if any, leaves wait
notify_one(f) ==
    IF Sleeping = {} THEN {f}
    ELSE {[f EXCEPT ![w] = Woken(f[w])] : w \in Sleeping}

\* Condvar::notify_all: every sleeping thread leaves wait
notify_all(f) == [p \in Producers |-> Woken(f[p])]

\* A thread is inside g_source_unref, running finalize
InFinalize(t) == finBy = t /\ fin \in {"begun", "locked"}

\* g_source_unref by thread t: the last reference runs finalize
GUnref(t) ==
    /\ gref' = gref - 1
    /\ fin' = IF gref = 1 /\ fin = "none" THEN "begun" ELSE fin
    /\ finBy' = IF gref = 1 /\ fin = "none" THEN t ELSE finBy

Init ==
    /\ bound \in Bounds
    /\ queue = <<>>
    /\ source = "NotAttached"
    /\ mutex = Nobody
    /\ strong = 2
    /\ gref = 0
    /\ gDestroyed = FALSE
    /\ ready_time = -1
    /\ inContext = FALSE
    /\ holder = FALSE
    /\ fin = "none"
    /\ finBy = Nobody
    /\ pc = [p \in Producers |-> "idle"]
    /\ handle = [p \in Producers |-> IF p = "p1" THEN "held" ELSE "none"]
    /\ sent = [p \in Producers |-> 0]
    /\ op = [p \in Producers |-> "none"]
    /\ item = [p \in Producers |-> NoItem]
    /\ res = [p \in Producers |-> "none"]
    /\ ret = [p \in Producers |-> NoItem]
    /\ startedGone = [p \in Producers |-> FALSE]
    /\ rx = "held"
    /\ lpc = "idle"
    /\ inHand = NoItem
    /\ has_callback = FALSE
    /\ ended = "none"
    /\ enqueued = <<>>
    /\ delivered = <<>>
    /\ consumed = {}
    /\ takenBack = {}

\* A producer thread that is free to start an operation
Idle(p) == pc[p] = "idle" /\ ~InFinalize(p)

\* send / try_send calls started so far
RECURSIVE SumSent(_)
SumSent(S) == IF S = {} THEN 0
              ELSE LET p == CHOOSE x \in S : TRUE IN sent[p] + SumSent(S \ {p})

\* --------------------------------------------------------- Channel::send

\* Sender::send / SyncSender::send is called
send_call(p) ==
    /\ Idle(p) /\ handle[p] = "held" /\ SumSent(Producers) < MaxSends
    /\ sent' = [sent EXCEPT ![p] = @ + 1]
    /\ op' = [op EXCEPT ![p] = "send"]
    /\ item' = [item EXCEPT ![p] = ItemOf(p, sent[p] + 1)]
    /\ res' = [res EXCEPT ![p] = "none"]
    /\ ret' = [ret EXCEPT ![p] = NoItem]
    /\ startedGone' = [startedGone EXCEPT ![p] = ConsumerGone]
    /\ pc' = [pc EXCEPT ![p] = "send_lock"]
    /\ UNCHANGED <<chanVars, gsrcVars, handle, loopVars, histVars>>

\* line 107: (self.0).0.lock()
send_lock(p) ==
    /\ pc[p] = "send_lock" /\ mutex = Nobody
    /\ mutex' = p
    /\ pc' = [pc EXCEPT ![p] = IF bound = Unbounded THEN "send_push" ELSE "send_space"]
    /\ UNCHANGED <<bound, queue, source, strong, gsrcVars,
                   handle, sent, op, item, res, ret, startedGone, loopVars, histVars>>

\* A send that does not wait for space
send_space_nowait(p) ==
    /\ pc[p] = "send_space" /\ mutex = p
    /\ pc' = [pc EXCEPT ![p] = "send_push"]
    /\ UNCHANGED <<chanVars, gsrcVars,
                   handle, sent, op, item, res, ret, startedGone, loopVars, histVars>>

\* lines 116-121: the condition of the wait-for-space loop, and cond.wait
send_space(p) ==
    /\ pc[p] = "send_space" /\ mutex = p
    /\ IF Len(queue) >= bound /\ queue # <<>> /\ ~receiver_disconnected
       THEN /\ mutex' = Nobody
            /\ pc' = [pc EXCEPT ![p] = "send_wait_space"]
       ELSE /\ mutex' = mutex
            /\ pc' = [pc EXCEPT ![p] = "send_push"]
    /\ UNCHANGED <<bound, queue, source, strong, gsrcVars,
                   handle, sent, op, item, res, ret, startedGone, loopVars, histVars>>

\* Condvar::wait returns: the thread takes the mutex again
Reacquire(p, from, to) ==
    /\ pc[p] = from /\ mutex = Nobody
    /\ mutex' = p
    /\ pc' = [pc EXCEPT ![p] = to]
    /\ UNCHANGED <<bound, queue, source, strong, gsrcVars,
                   handle, sent, op, item, res, ret, startedGone, loopVars, histVars>>

send_woke_space(p) == Reacquire(p, "send_woke_space", "send_space")

\* A send without the check of line 125: it enqueues whatever the receiver
send_push_unchecked(p) ==
    /\ pc[p] = "send_push" /\ mutex = p
    /\ queue' = push_back(queue, item[p])
    /\ enqueued' = Append(enqueued, item[p])
    /\ ready_time' = set_ready_time(0)
    /\ IF bound = 0
       THEN /\ pc' = [pc EXCEPT ![p] = "send_handoff"]
            /\ UNCHANGED <<mutex, res, ret>>
       ELSE /\ res' = [res EXCEPT ![p] = "Ok"]
            /\ mutex' = Nobody
            /\ pc' = [pc EXCEPT ![p] = "idle"]
            /\ UNCHANGED ret
    /\ UNCHANGED <<bound, source, strong, gref, gDestroyed, inContext, holder, fin, finBy,
                   handle, sent, op, item, startedGone, loopVars,
                   delivered, consumed, takenBack>>

\* lines 125-133 (and the jump over the hand-off for a bound other than 0)
send_push(p) ==
    /\ pc[p] = "send_push" /\ mutex = p
    /\ IF receiver_disconnected
       THEN /\ res' = [res EXCEPT ![p] = "Err"]
            /\ ret' = [ret EXCEPT ![p] = item[p]]
            /\ mutex' = Nobody
            /\ pc' = [pc EXCEPT ![p] = "idle"]
            /\ UNCHANGED <<queue, ready_time, enqueued>>
       ELSE /\ queue' = push_back(queue, item[p])
            /\ enqueued' = Append(enqueued, item[p])
            /\ ready_time' = set_ready_time(0)
            /\ IF bound = 0
               THEN /\ pc' = [pc EXCEPT ![p] = "send_handoff"]
                    /\ UNCHANGED <<mutex, res, ret>>
               ELSE /\ res' = [res EXCEPT ![p] = "Ok"]
                    /\ mutex' = Nobody
                    /\ pc' = [pc EXCEPT ![p] = "idle"]
                    /\ UNCHANGED ret
    /\ UNCHANGED <<bound, source, strong, gref, gDestroyed, inContext, holder, fin, finBy,
                   handle, sent, op, item, startedGone, loopVars,
                   delivered, consumed, takenBack>>

\* lines 138-140 and 182-184: the condition of the hand-off loop, and cond.wait
Handoff(p, here, wait, next) ==
    /\ pc[p] = here /\ mutex = p
    /\ IF queue # <<>> /\ ~receiver_disconnected
       THEN /\ mutex' = Nobody
            /\ pc' = [pc EXCEPT ![p] = wait]
       ELSE /\ mutex' = mutex
            /\ pc' = [pc EXCEPT ![p] = next]
    /\ UNCHANGED <<bound, queue, source, strong, gsrcVars,
                   handle, sent, op, item, res, ret, startedGone, loopVars, histVars>>

\* lines 143-152 and 187-196: the result of a send on a bound of 0
HandoffResult(p, here, err) ==
    /\ pc[p] = here /\ mutex = p
    /\ IF receiver_disconnected /\ queue # <<>>
       THEN /\ res' = [res EXCEPT ![p] = err]
            /\ ret' = [ret EXCEPT ![p] = Head(queue)]
            /\ queue' = Tail(queue)
            /\ takenBack' = takenBack \cup {Head(queue)}
       ELSE /\ res' = [res EXCEPT ![p] = "Ok"]
            /\ UNCHANGED <<ret, queue, takenBack>>
    /\ mutex' = Nobody
    /\ pc' = [pc EXCEPT ![p] = "idle"]
    /\ UNCHANGED <<bound, source, strong, gsrcVars,
                   handle, sent, op, item, startedGone, loopVars,
                   enqueued, delivered, consumed>>

\* A send on a bound of 0 that does not wait for its item to be taken
send_handoff_nowait(p) ==
    /\ pc[p] = "send_handoff" /\ mutex = p
    /\ pc' = [pc EXCEPT ![p] = "send_result"]
    /\ UNCHANGED <<chanVars, gsrcVars,
                   handle, sent, op, item, res, ret, startedGone, loopVars, histVars>>

send_handoff(p) == Handoff(p, "send_handoff", "send_wait_handoff", "send_result")
send_woke_handoff(p) == Reacquire(p, "send_woke_handoff", "send_handoff")
send_result(p) == HandoffResult(p, "send_result", "Err")

\* ----------------------------------------------------- Channel::try_send

\* SyncSender::try_send is called (there is no try_send on a Sender)
try_send_call(p) ==
    /\ Idle(p) /\ handle[p] = "held" /\ SumSent(Producers) < MaxSends
    /\ bound # Unbounded
    /\ sent' = [sent EXCEPT ![p] = @ + 1]
    /\ op' = [op EXCEPT ![p] = "try_send"]
    /\ item' = [item EXCEPT ![p] = ItemOf(p, sent[p] + 1)]
    /\ res' = [res EXCEPT ![p] = "none"]
    /\ ret' = [ret EXCEPT ![p] = NoItem]
    /\ startedGone' = [startedGone EXCEPT ![p] = ConsumerGone]
    /\ pc' = [pc EXCEPT ![p] = "try_lock"]
    /\ UNCHANGED <<chanVars, gsrcVars, handle, loopVars, histVars>>

\* line 156: (self.0).0.lock()
try_send_lock(p) ==
    /\ pc[p] = "try_lock" /\ mutex = Nobody
    /\ mutex' = p
    /\ pc' = [pc EXCEPT ![p] = "try_push"]
    /\ UNCHANGED <<bound, queue, source, strong, gsrcVars,
                   handle, sent, op, item, res, ret, startedGone, loopVars, histVars>>

\* The check of line 164 with > for >=
try_send_full_off_by_one == Len(queue) > bound /\ queue # <<>>

\* line 164: the queue is full (for a bound of 0: not empty)
try_send_full == Len(queue) >= bound /\ queue # <<>>

\* A try_send that waits for the hand-off whatever the bound
try_send_push_always_handoff(p) ==
    /\ pc[p] = "try_push" /\ mutex = p
    /\ IF try_send_full \/ receiver_disconnected
       THEN /\ res' = [res EXCEPT ![p] = IF try_send_full THEN "Full" ELSE "Disconnected"]
            /\ ret' = [ret EXCEPT ![p] = item[p]]
            /\ mutex' = Nobody
            /\ pc' = [pc EXCEPT ![p] = "idle"]
            /\ UNCHANGED <<queue, ready_time, enqueued>>
       ELSE /\ queue' = push_back(queue, item[p])
            /\ enqueued' = Append(enqueued, item[p])
            /\ ready_time' = set_ready_time(0)
            /\ pc' = [pc EXCEPT ![p] = "try_handoff"]
            /\ UNCHANGED <<mutex, res, ret>>
    /\ UNCHANGED <<bound, source, strong, gref, gDestroyed, inContext, holder, fin, finBy,
                   handle, sent, op, item, startedGone, loopVars,
                   delivered, consumed, takenBack>>

\* lines 164-177 (and the jump over the hand-off for a bound other than 0)
try_send_push(p) ==
    /\ pc[p] = "try_push" /\ mutex = p
    /\ IF try_send_full \/ receiver_disconnected
       THEN /\ res' = [res EXCEPT ![p] = IF try_send_full THEN "Full" ELSE "Disconnected"]
            /\ ret' = [ret EXCEPT ![p] = item[p]]
            /\ mutex' = Nobody
            /\ pc' = [pc EXCEPT ![p] = "idle"]
            /\ UNCHANGED <<queue, ready_time, enqueued>>
       ELSE /\ queue' = push_back(queue, item[p])
            /\ enqueued' = Append(enqueued, item[p])
            /\ ready_time' = set_ready_time(0)
            /\ IF bound = 0
               THEN /\ pc' = [pc EXCEPT ![p] = "try_handoff"]
                    /\ UNCHANGED <<mutex, res, ret>>
               ELSE /\ res' = [res EXCEPT ![p] = "Ok"]
                    /\ mutex' = Nobody
                    /\ pc' = [pc EXCEPT ![p] = "idle"]
                    /\ UNCHANGED ret
    /\ UNCHANGED <<bound, source, strong, gref, gDestroyed, inContext, holder, fin, finBy,
                   handle, sent, op, item, startedGone, loopVars,
                   delivered, consumed, takenBack>>

try_send_handoff(p) == Handoff(p, "try_handoff", "try_wait_handoff", "try_result")
try_send_woke_handoff(p) == Reacquire(p, "try_woke_handoff", "try_handoff")
try_send_result(p) == HandoffResult(p, "try_result", "Disconnected")

\* Condvar::wait may return without a notification
spurious_wakeup(p) ==
    /\ p \in Sleeping
    /\ pc' = [pc EXCEPT ![p] = Woken(pc[p])]
    /\ UNCHANGED <<chanVars, gsrcVars, handle, sent, op, item, res, ret, startedGone,
                   loopVars, histVars>>

\* ------------------------------------- Sender / SyncSender : Clone and Drop

\* #[derive(Clone)]: thread q receives a clone of the handle of thread p
clone(p, q) ==
    /\ Idle(p) /\ handle[p] = "held"
    /\ Idle(q) /\ handle[q] = "none"
    /\ handle' = [handle EXCEPT ![q] = "held"]
    /\ strong' = strong + 1
    /\ UNCHANGED <<bound, queue, source, mutex, gsrcVars,
                   pc, sent, op, item, res, ret, startedGone, loopVars, histVars>>

\* drop is called: lines 343 / 390, self.0.take()
drop_call(p) ==
    /\ Idle(p) /\ handle[p] = "held"
    /\ handle' = [handle EXCEPT ![p] = "dropped"]
    /\ pc' = [pc EXCEPT ![p] = "drop_lock"]
    /\ UNCHANGED <<chanVars, gsrcVars, sent, op, item, res, ret, startedGone,
                   loopVars, histVars>>

\* lines 346 / 393: (channel.0).0.lock()
drop_lock(p) ==
    /\ pc[p] = "drop_lock" /\ mutex = Nobody
    /\ mutex' = p
    /\ pc' = [pc EXCEPT ![p] = "drop_source"]
    /\ UNCHANGED <<bound, queue, source, strong, gsrcVars,
                   handle, sent, op, item, res, ret, startedGone, loopVars, histVars>>

\* lines 349-352 / 396-399: inner.source(), up to g_source_is_destroyed;
\* None unlocks and returns
drop_source(p) ==
    /\ pc[p] = "drop_source" /\ mutex = p
    /\ IF source_alive
       THEN /\ pc' = [pc EXCEPT ![p] = "drop_ref"]
            /\ UNCHANGED mutex
       ELSE /\ pc' = [pc EXCEPT ![p] = "drop_return"]
            /\ mutex' = Nobody
    /\ UNCHANGED <<bound, queue, source, strong, gsrcVars,
                   handle, sent, op, item, res, ret, startedGone, loopVars, histVars>>

\* line 70: Source::from_glib_none takes a reference; the guard is released
drop_ref(p) ==
    /\ pc[p] = "drop_ref" /\ mutex = p
    /\ gref' = gref + 1
    /\ mutex' = Nobody
    /\ pc' = [pc EXCEPT ![p] = "drop_channel"]
    /\ UNCHANGED <<bound, queue, source, strong,
                   gDestroyed, ready_time, inContext, holder, fin, finBy,
                   handle, sent, op, item, res, ret, startedGone, loopVars, histVars>>

\* lines 350 / 397: `return` drops the channel after the guard
drop_return(p) ==
    /\ pc[p] = "drop_return"
    /\ strong' = strong - 1
    /\ pc' = [pc EXCEPT ![p] = "idle"]
    /\ UNCHANGED <<bound, queue, source, mutex, gsrcVars,
                   handle, sent, op, item, res, ret, startedGone, loopVars, histVars>>

\* lines 356 / 403: drop(channel)
drop_channel(p) ==
    /\ pc[p] = "drop_channel"
    /\ strong' = strong - 1
    /\ pc' = [pc EXCEPT ![p] = "drop_ready"]
    /\ UNCHANGED <<bound, queue, source, mutex, gsrcVars,
                   handle, sent, op, item, res, ret, startedGone, loopVars, histVars>>

\* lines 357 / 404: g_source_set_ready_time(source, 0).  On a source whose
\* finalize has begun the write goes to memory that g_source_unref may
\* have freed already: it lands or it does not
drop_ready(p) ==
    /\ pc[p] = "drop_ready"
    /\ ready_time' \in (IF fin = "none" THEN {0} ELSE {0, ready_time})
    /\ pc' = [pc EXCEPT ![p] = "drop_unref"]
    /\ UNCHANGED <<chanVars, gref, gDestroyed, inContext, holder, fin, finBy,
                   handle, sent, op, item, res, ret, startedGone, loopVars, histVars>>

\* lines 358 / 405: the Source goes out of scope, g_source_unref
drop_unref(p) ==
    /\ pc[p] = "drop_unref"
    /\ GUnref(p)
    /\ pc' = [pc EXCEPT ![p] = "idle"]
    /\ UNCHANGED <<chanVars, gDestroyed, ready_time, inContext, holder,
                   handle, sent, op, item, res, ret, startedGone, loopVars, histVars>>

\* ---------------------------------------------------------------- Receiver

\* The thread that owns the Receiver and the main context is free
LoopIdle == lpc = "idle" /\ ~InFinalize(LoopThread)

\* Receiver::drop is called on a Receiver that was not attached
receiver_drop_call ==
    /\ LoopIdle /\ rx = "held"
    /\ rx' = "dropping"
    /\ lpc' = "rdrop_lock"
    /\ UNCHANGED <<chanVars, gsrcVars, prodVars, inHand, has_callback, ended, histVars>>

\* line 428: (channel.0).0.lock()
receiver_drop_lock ==
    /\ lpc = "rdrop_lock" /\ mutex = Nobody
    /\ mutex' = LoopThread
    /\ lpc' = "rdrop"
    /\ UNCHANGED <<bound, queue, source, strong, gsrcVars, prodVars, rx, inHand, has_callback, ended, histVars>>

\* A Receiver::drop that leaves the waiting threads asleep
receiver_drop_no_notify ==
    /\ lpc = "rdrop" /\ mutex = LoopThread
    /\ source' = "Destroyed"
    /\ mutex' = Nobody
    /\ strong' = strong - 1
    /\ rx' = "dropped"
    /\ lpc' = "idle"
    /\ UNCHANGED <<bound, queue, gsrcVars, prodVars,
                   inHand, has_callback, ended, histVars>>

\* lines 429-433: Destroyed, notify_all, then the guard and the channel go
receiver_drop ==
    /\ lpc = "rdrop" /\ mutex = LoopThread
    /\ source' = "Destroyed"
    /\ pc' = IF bound # Unbounded THEN notify_all(pc) ELSE pc
    /\ mutex' = Nobody
    /\ strong' = strong - 1
    /\ rx' = "dropped"
    /\ lpc' = "idle"
    /\ UNCHANGED <<bound, queue, gsrcVars,
                   handle, sent, op, item, res, ret, startedGone,
                   inHand, has_callback, ended, histVars>>

\* Receiver::attach is called: lines 453-468, g_source_new
attach_call ==
    /\ LoopIdle /\ rx = "held"
    /\ rx' = "attaching"
    /\ gref' = 1
    /\ lpc' = "attach_lock"
    /\ UNCHANGED <<chanVars, gDestroyed, ready_time, inContext, holder, fin, finBy,
                   prodVars, inHand, has_callback, ended, histVars>>

\* line 473: (channel.0).0.lock()
attach_lock ==
    /\ lpc = "attach_lock" /\ mutex = Nobody
    /\ mutex' = LoopThread
    /\ lpc' = "attach_setup"
    /\ UNCHANGED <<bound, queue, source, strong, gsrcVars, prodVars, rx, inHand, has_callback, ended, histVars>>

\* An attach that asks for both conditions of line 479 at once
attach_ready_time_idle == IF queue # <<>> /\ strong = 1 THEN 0 ELSE -1

\* lines 478-485: the ready time attach gives the new GSource
attach_ready_time == IF queue # <<>> \/ strong = 1 THEN 0 ELSE -1

\* An attach that does not record the source in the channel
attach_setup_no_store ==
    /\ lpc = "attach_setup" /\ mutex = LoopThread
    /\ ready_time' = attach_ready_time
    /\ mutex' = Nobody
    /\ lpc' = "attach_context"
    /\ UNCHANGED <<bound, queue, source, strong, gref, gDestroyed, inContext, holder,
                   fin, finBy, prodVars, rx, inHand, has_callback, ended, histVars>>

\* lines 475-487: set up the GSource under the mutex
attach_setup ==
    /\ lpc = "attach_setup" /\ mutex = LoopThread
    /\ ready_time' = attach_ready_time
    /\ source' = "Attached"
    /\ mutex' = Nobody
    /\ lpc' = "attach_context"
    /\ UNCHANGED <<bound, queue, strong, gref, gDestroyed, inContext, holder, fin, finBy,
                   prodVars, rx, inHand, has_callback, ended, histVars>>

\* lines 489-508: fill the ChannelSource, source.attach(context); the
\* context takes a reference and the local Source gives its own up
attach_context ==
    /\ lpc = "attach_context"
    /\ inContext' = TRUE
    /\ has_callback' = TRUE
    /\ rx' = "attached"
    /\ lpc' = "idle"
    /\ UNCHANGED <<chanVars, gref, gDestroyed, ready_time, holder, fin, finBy,
                   prodVars, inHand, ended, histVars>>

\* ------------------------------------------------- prepare, check, dispatch

\* prepare / check: lines 238 and 248
prepare == ready_time = 0

\* The main loop finds the source ready and calls dispatch: line 263
dispatch ==
    /\ LoopIdle /\ inContext /\ ~gDestroyed
    /\ prepare
    /\ ready_time' = -1
    /\ lpc' = "recv_lock"
    /\ UNCHANGED <<chanVars, gref, gDestroyed, inContext, holder, fin, finBy,
                   prodVars, rx, inHand, has_callback, ended, histVars>>

\* The context is iterated by a thread other than the one that called
\* attach: dispatch clears the ready time (line 263) and then fails the
\* assert_eq on the thread id (lines 266-270).  The panic ends the
\* iteration of the context; no step of the loop follows it.
dispatch_other_thread ==
    /\ LoopIdle /\ inContext /\ ~gDestroyed
    /\ prepare
    /\ ready_time' = -1
    /\ lpc' = "panicked"
    /\ UNCHANGED <<chanVars, gref, gDestroyed, inContext, holder, fin, finBy,
                   prodVars, rx, inHand, has_callback, ended, histVars>>

\* line 200: (self.0).0.lock()
try_recv_lock ==
    /\ lpc = "recv_lock" /\ mutex = Nobody
    /\ mutex' = LoopThread
    /\ lpc' = "recv"
    /\ UNCHANGED <<bound, queue, source, strong, gsrcVars, prodVars, rx, inHand, has_callback, ended, histVars>>

\* A pop that empties the queue
pop_front_all(q) == <<>>

\* VecDeque::pop_front of a queue that is not empty
pop_front(q) == Tail(q)

\* A try_recv that returns with the guard of the mutex still alive
try_recv_keeps_lock ==
    /\ lpc = "recv" /\ mutex = LoopThread
    /\ IF queue # <<>>
       THEN /\ inHand' = Head(queue)
            /\ queue' = pop_front(queue)
            /\ consumed' = consumed \cup {Head(queue)}
            /\ pc' \in (IF bound # Unbounded THEN notify_one(pc) ELSE {pc})
            /\ lpc' = "callback"
            /\ UNCHANGED ended
       ELSE /\ lpc' = IF strong = 1 THEN "remove" ELSE "idle"
            /\ ended' = IF strong = 1 THEN "Disconnected" ELSE ended
            /\ UNCHANGED <<inHand, queue, consumed, pc>>
    /\ UNCHANGED <<bound, source, strong, mutex, gsrcVars,
                   handle, sent, op, item, res, ret, startedGone, rx, has_callback,
                   enqueued, delivered, takenBack>>

\* lines 203-217, and the arms of dispatch that do not call the callback
\* (lines 281-282)
try_recv ==
    /\ lpc = "recv" /\ mutex = LoopThread
    /\ IF queue # <<>>
       THEN /\ inHand' = Head(queue)
            /\ queue' = pop_front(queue)
            /\ consumed' = consumed \cup {Head(queue)}
            /\ pc' \in (IF bound # Unbounded THEN notify_one(pc) ELSE {pc})
            /\ lpc' = "callback"
            /\ UNCHANGED ended
       ELSE /\ lpc' = IF strong = 1 THEN "remove" ELSE "idle"
            /\ ended' = IF strong = 1 THEN "Disconnected" ELSE ended
            /\ UNCHANGED <<inHand, queue, consumed, pc>>
    /\ mutex' = Nobody
    /\ UNCHANGED <<bound, source, strong, gsrcVars,
                   handle, sent, op, item, res, ret, startedGone, rx, has_callback,
                   enqueued, delivered, takenBack>>

\* A dispatch that goes on with the loop whatever the callback answers
callback_ignores_answer ==
    /\ lpc = "callback"
    /\ delivered' = Append(delivered, inHand)
    /\ inHand' = NoItem
    /\ \E cont \in BOOLEAN :
          /\ lpc' = "recv_lock"
          /\ ended' = IF cont THEN ended ELSE "Stop"
    /\ UNCHANGED <<chanVars, gsrcVars, prodVars, rx, has_callback,
                   enqueued, consumed, takenBack>>

\* lines 284-290: the callback gets the item and answers Continue(cont)
callback ==
    /\ lpc = "callback"
    /\ delivered' = Append(delivered, inHand)
    /\ inHand' = NoItem
    /\ \E cont \in BOOLEAN :
          /\ lpc' = IF cont THEN "recv_lock" ELSE "remove"
          /\ ended' = IF cont THEN ended ELSE "Stop"
    /\ UNCHANGED <<chanVars, gsrcVars, prodVars, rx, has_callback,
                   enqueued, consumed, takenBack>>

\* dispatch returned G_SOURCE_REMOVE (lines 282, 289): the main loop
\* destroys the source and gives up the reference of the context
remove ==
    /\ lpc = "remove"
    /\ gDestroyed' = TRUE
    /\ inContext' = FALSE
    /\ GUnref(LoopThread)
    /\ lpc' = "idle"
    /\ UNCHANGED <<chanVars, ready_time, holder, prodVars, rx, inHand, has_callback, ended, histVars>>

\* The source is destroyed from outside (tests, lines 644-645 and 672-673):
\* either through a Source that is kept afterwards, or without one
destroy ==
    /\ LoopIdle /\ inContext /\ ~gDestroyed
    /\ gDestroyed' = TRUE
    /\ inContext' = FALSE
    /\ \E keep \in BOOLEAN :
          IF keep THEN holder' = TRUE /\ UNCHANGED <<gref, fin, finBy>>
                  ELSE holder' = FALSE /\ GUnref(LoopThread)
    /\ UNCHANGED <<chanVars, ready_time, prodVars, loopVars, histVars>>

\* The kept Source is dropped (test, line 676)
holder_drop ==
    /\ holder /\ ~InFinalize(HolderThread)
    /\ holder' = FALSE
    /\ GUnref(HolderThread)
    /\ UNCHANGED <<chanVars, gDestroyed, ready_time, inContext,
                   prodVars, loopVars, histVars>>

\* ---------------------------------------------------------------- finalize

\* lines 304-309: take the channel and lock it
finalize_lock ==
    /\ fin = "begun" /\ mutex = Nobody
    /\ mutex' = finBy
    /\ fin' = "locked"
    /\ UNCHANGED <<bound, queue, source, strong,
                   gref, gDestroyed, ready_time, inContext, holder, finBy,
                   prodVars, loopVars, histVars>>

\* A finalize that leaves the waiting threads asleep
finalize_no_notify ==
    /\ fin = "locked" /\ mutex = finBy
    /\ source' = "Destroyed"
    /\ mutex' = Nobody
    /\ strong' = strong - 1
    /\ has_callback' = FALSE
    /\ fin' = "done"
    /\ UNCHANGED <<bound, queue, gref, gDestroyed, ready_time, inContext, holder, finBy,
                   prodVars, rx, lpc, inHand, ended, histVars>>

\* lines 310-317: Destroyed, notify_all, then the guard, the channel and the
\* callback go
finalize ==
    /\ fin = "locked" /\ mutex = finBy
    /\ source' = "Destroyed"
    /\ pc' = IF bound # Unbounded THEN notify_all(pc) ELSE pc
    /\ mutex' = Nobody
    /\ strong' = strong - 1
    /\ has_callback' = FALSE
    /\ fin' = "done"
    /\ UNCHANGED <<bound, queue, gref, gDestroyed, ready_time, inContext, holder, finBy,
                   handle, sent, op, item, res, ret, startedGone,
                   rx, lpc, inHand, ended, histVars>>

\* ------------------------------------------------------------ specification

ProducerStep(p) ==
    \/ send_lock(p) \/ send_space(p) \/ send_woke_space(p) \/ send_push(p)
    \/ send_handoff(p) \/ send_woke_handoff(p) \/ send_result(p)
    \/ try_send_lock(p) \/ try_send_push(p)
    \/ try_send_handoff(p) \/ try_send_woke_handoff(p) \/ try_send_result(p)
    \/ drop_lock(p) \/ drop_source(p) \/ drop_ref(p) \/ drop_return(p)
    \/ drop_channel(p) \/ drop_ready(p) \/ drop_unref(p)

ProducerCall(p) ==
    \/ send_call(p) \/ try_send_call(p) \/ drop_call(p)
    \/ \E q \in Producers : clone(p, q)

LoopStep ==
    \/ receiver_drop_lock \/ receiver_drop
    \/ attach_lock \/ attach_setup \/ attach_context
    \/ dispatch \/ try_recv_lock \/ try_recv \/ callback \/ remove

FinalizeStep == finalize_lock \/ finalize

Environment ==
    \/ receiver_drop_call \/ attach_call \/ destroy \/ holder_drop
    \/ dispatch_other_thread
    \/ \E p \in Producers : spurious_wakeup(p)

Next ==
    \/ \E p \in Producers : ProducerCall(p) \/ ProducerStep(p)
    \/ LoopStep
    \/ FinalizeStep
    \/ Environment

Spec == Init /\ [][Next]_vars

\* Every thread that can take a step of the code it is in takes it in the
\* end, and a thread that waits for the mutex gets it.  Calls, the answer of
\* the callback, destroying the source from outside, dropping a kept Source
\* and spurious wake-ups are up to the program that uses the channel.
Fairness ==
    /\ \A p \in Producers : SF_vars(ProducerStep(p))
    /\ SF_vars(LoopStep)
    /\ SF_vars(FinalizeStep)

FairSpec == Spec /\ Fairness

\* ------------------------------------------------------------------ claims

Range(s) == {s[i] : i \in 1 .. Len(s)}

IsPrefix(s, t) == Len(s) <= Len(t) /\ SubSeq(t, 1, Len(s)) = s

\* The last send / try_send of thread p has returned
Returned(p) == pc[p] = "idle" /\ res[p] # "none"

\* C1: FIFO delivery.  As long as no producer took an item back, the items
\* handed to the callback are a prefix of the enqueued items, in the order of
\* their push_back (which is the order in which the pushes held the mutex).
C1_FifoDelivery ==
    takenBack = {} => IsPrefix(delivered, enqueued)

\* C1 witness: the callback got items of both producers.
C1_Witness ==
    /\ takenBack = {}
    /\ Len(delivered) >= 2
    /\ \E i, j \in 1 .. Len(delivered) : delivered[i][1] # delivered[j][1]

\* Every Sender / SyncSender, clones included, has been dropped, and the
\* drops have returned
AllHandlesDropped ==
    \A p \in Producers : handle[p] # "held" /\ pc[p] = "idle"

\* C2: disconnection visibility.  Once the last producer handle has been
\* dropped and the Receiver is attached, the task is removed from the main
\* context in the end (dispatch sees Disconnected), however the drop was
\* interleaved with attach and dispatch.
C2_DisconnectionVisibility ==
    (AllHandlesDropped /\ rx = "attached") ~> gDestroyed

\* C3: rendezvous hand-off.  On a bound of 0 with the consumer connected, a
\* send / try_send that returned Ok had its own item removed by try_recv,
\* and every enqueued item that try_recv has not removed yet is the item of
\* a call that is still running (so no thread enqueues its next item before
\* its previous one was popped).
C3_RendezvousHandoff ==
    (bound = 0 /\ ~ConsumerGone) =>
        /\ \A p \in Producers :
              (Returned(p) /\ res[p] = "Ok") => item[p] \in consumed
        /\ \A i \in 1 .. Len(enqueued) :
              \/ enqueued[i] \in consumed
              \/ \E p \in Producers : item[p] = enqueued[i] /\ pc[p] # "idle"

\* C3 witness: a thread whose first send returned Ok has enqueued its
\* second item, with the consumer still connected.
C3_Witness ==
    /\ bound = 0 /\ ~ConsumerGone
    /\ \E p \in Producers :
          /\ sent[p] = 2 /\ op[p] = "send"
          /\ ItemOf(p, 1) \in consumed
          /\ queue = <<ItemOf(p, 2)>>

\* C4: rendezvous send outcome under teardown.  On a bound of 0 every
\* send / try_send that returned gave Ok if and only if its own item was
\* removed by try_recv, and otherwise gave back its own item.
C4_RendezvousOutcome ==
    bound = 0 =>
        \A p \in Producers :
            Returned(p) =>
                /\ res[p] = "Ok" <=> item[p] \in consumed
                /\ res[p] # "Ok" => ret[p] = item[p]

\* Thread p is asleep in a Condvar::wait of a blocking send
BlockedInSend(p) == pc[p] \in {"send_wait_space", "send_wait_handoff"}

\* C5: teardown wakes waiters.  A producer asleep inside a blocking send
\* when the consumer side is gone (Receiver dropped, removal requested by
\* dispatch, task destroyed from outside) returns in the end; none stays
\* blocked for ever.
C5_TeardownWakesWaiters ==
    \A p \in Producers : (BlockedInSend(p) /\ ConsumerGone) ~> (pc[p] = "idle")

\* No dispatch is running on the attached, live task
TaskAtRest == rx = "attached" /\ ~gDestroyed /\ lpc = "idle"

\* No producer handle remains: the only strong reference is the receiver's
NoProducerLeft == strong = 1

\* C6: no spurious dispatch.  Whenever no dispatch is running on the
\* attached task, the readiness marker is "immediate" (0) only if the queue
\* is not empty or no producer handle remains.
C6_NoSpuriousDispatch ==
    (TaskAtRest /\ ready_time = 0) => (queue # <<>> \/ NoProducerLeft)

\* No send, try_send, handle drop, attach or finalize is in the middle of
\* its execution
Quiescent ==
    /\ \A p \in Producers : pc[p] = "idle"
    /\ fin \in {"none", "done"}

\* C7: no missed readiness.  With the task attached and not destroyed, no
\* dispatch running and no producer operation or attach under way, the
\* marker is "idle" (-1) only if the queue is empty and a producer handle
\* still exists.
C7_NoMissedReadiness ==
    (TaskAtRest /\ Quiescent /\ ready_time = -1) =>
        (queue = <<>> /\ ~NoProducerLeft)

\* Positions of a thread inside Channel::send
SendPcs == {"send_lock", "send_space", "send_wait_space", "send_woke_space",
            "send_push", "send_handoff", "send_wait_handoff",
            "send_woke_handoff", "send_result"}

\* C8: sends fail for good once the consumer is gone.  Every step of a send
\* that started after the Receiver was dropped or the task was destroyed
\* leaves the queue as it is and never goes to sleep, and the send returns
\* Err with the item of its caller.
C8_SendFailsAfterGone ==
    [][\A p \in Producers :
          (startedGone[p] /\ pc[p] \in SendPcs /\ pc'[p] # pc[p]) =>
              /\ queue' = queue
              /\ pc'[p] \in {"send_space", "send_push", "idle"}
              /\ pc'[p] = "idle" => (res'[p] = "Err" /\ ret'[p] = item[p])]_vars

\* C8 witness: a bounded send that started on a full queue after the task
\* was destroyed has returned Err, the queue still full.
C8_Witness ==
    \E p \in Producers :
        /\ startedGone[p] /\ op[p] = "send" /\ Returned(p) /\ res[p] = "Err"
        /\ bound >= 1 /\ Len(queue) = bound
        /\ gDestroyed

\* A send on an unbounded channel decides its result
UnboundedSendDecides(p) ==
    bound = Unbounded /\ pc[p] = "send_push" /\ pc'[p] = "idle"

\* C9 as stated: on an unbounded channel send returns Err with the item
\* exactly when attachment == Destroyed, and otherwise (NotAttached or
\* Attached) returns Ok and enqueues the item.
C9_ErrOnlyWhenDestroyedState ==
    [][\A p \in Producers :
          UnboundedSendDecides(p) =>
              IF source = "Destroyed"
              THEN res'[p] = "Err" /\ ret'[p] = item[p] /\ queue' = queue
              ELSE res'[p] = "Ok" /\ queue' = Append(queue, item[p])]_vars

\* C9 amended: on an unbounded channel send returns Err with the item
\* exactly when attachment == Destroyed or attachment == Attached to a task
\* that is already destroyed (finalize may not have run yet), and otherwise
\* returns Ok and enqueues the item.
C9_ErrWhenReceiverDisconnected ==
    [][\A p \in Producers :
          UnboundedSendDecides(p) =>
              IF source = "Destroyed" \/ (source = "Attached" /\ gDestroyed)
              THEN res'[p] = "Err" /\ ret'[p] = item[p] /\ queue' = queue
              ELSE res'[p] = "Ok" /\ queue' = Append(queue, item[p])]_vars

\* C9 witness: an unbounded send returned Err while attachment is Attached
\* (the task is destroyed, finalize has not run), and another returned Ok.
C9_Witness ==
    /\ bound = Unbounded /\ source = "Attached" /\ gDestroyed
    /\ \E p \in Producers : Returned(p) /\ res[p] = "Err" /\ ret[p] = item[p]
    /\ enqueued # <<>>

\* A try_send decides whether it enqueues
TrySendDecides(p) == pc[p] = "try_push" /\ pc'[p] # "try_push"

\* The queue holds as many items as the bound allows (bound 0: any item)
Saturated == IF bound = 0 THEN queue # <<>> ELSE Len(queue) = bound

\* C10: bounded try_send saturation.  try_send returns Full exactly when
\* the queue already holds N items (bound 0: is not empty); Full carries the
\* item and leaves the queue unchanged; with N >= 1 and the consumer
\* connected a try_send on fewer than N items returns Ok and enqueues.
C10_TrySendSaturation ==
    [][\A p \in Producers :
          TrySendDecides(p) =>
              /\ res'[p] = "Full" <=> Saturated
              /\ res'[p] = "Full" => (ret'[p] = item[p] /\ queue' = queue)
              /\ (bound >= 1 /\ ~Saturated /\ ~ConsumerGone) =>
                    (res'[p] = "Ok" /\ queue' = Append(queue, item[p]))]_vars

\* C10 witness: from the empty queue with no pops, N try_send calls were
\* enqueued and a further one returned Full.
C10_Witness ==
    /\ bound >= 1 /\ ~ConsumerGone
    /\ consumed = {} /\ takenBack = {}
    /\ Len(queue) = bound
    /\ \E p, q \in Producers :
          /\ op[p] = "try_send" /\ Returned(p) /\ res[p] = "Full" /\ ret[p] = item[p]
          /\ op[q] = "try_send" /\ Returned(q) /\ res[q] = "Ok"

\* C11: capacity invariant.  A channel created with bound N >= 1 never holds
\* more than N items, and one created with bound 0 never more than 1.
C11_CapacityInvariant ==
    /\ bound >= 1 => Len(queue) <= bound
    /\ bound = 0 => Len(queue) <= 1

\* C11 witness: the queue is at its capacity while one producer sleeps for
\* space and the other has just been refused by try_send.
C11_Witness ==
    /\ bound >= 1 /\ Len(queue) = bound
    /\ \E p, q \in Producers :
          /\ pc[p] = "send_wait_space"
          /\ op[q] = "try_send" /\ Returned(q) /\ res[q] = "Full"

\* C12: try_send outcome distinction.  A try_send called when the consumer
\* is gone returns Disconnected with its item, and a try_send returns Full
\* only when the bound is saturated while the consumer is still connected.
C12_TrySendOutcome ==
    [][\A p \in Producers :
          TrySendDecides(p) =>
              /\ startedGone[p] => (res'[p] = "Disconnected" /\ ret'[p] = item[p])
              /\ res'[p] = "Full" => (Saturated /\ ~ConsumerGone)]_vars

\* Thread p is inside try_send, or inside send on an unbounded channel
InNonBlockingCall(p) ==
    \/ pc[p] \in {"try_lock", "try_push", "try_handoff", "try_wait_handoff",
                   "try_woke_handoff", "try_result"}
    \/ bound = Unbounded /\ pc[p] \in SendPcs

\* C13 as stated: try_send (for every bound, 0 included), try_recv and send
\* on an unbounded channel never wait on the condition variable.
C13_NonBlockingNeverWait ==
    \A p \in Producers : InNonBlockingCall(p) => p \notin Sleeping

\* C13 amended: try_send on a bound N >= 1 and send on an unbounded channel
\* never wait on the condition variable and, once they hold the mutex, need
\* no step of another thread; the same for try_recv.  Only on a bound of 0
\* does try_send wait (for the hand-off, after it has enqueued).
C13_NonBlockingUnlessRendezvous ==
    /\ \A p \in Producers :
          /\ (InNonBlockingCall(p) /\ bound # 0) =>
                /\ p \notin Sleeping
                /\ pc[p] \in {"try_lock", "try_push", "send_lock", "send_push"}
                /\ pc[p] \in {"try_push", "send_push"} => mutex = p
          /\ pc[p] \in {"try_wait_handoff", "try_woke_handoff"} =>
                (bound = 0 /\ item[p] \in Range(enqueued))
    /\ lpc = "recv" => mutex = LoopThread

\* C13 witness: on a bound N >= 1 a try_send has returned Ok, its item still
\* queued, while a blocking send sleeps for space.
C13_Witness ==
    /\ bound >= 1
    /\ \E p, q \in Producers :
          /\ op[p] = "try_send" /\ Returned(p) /\ res[p] = "Ok"
          /\ \E i \in 1 .. Len(queue) : queue[i] = item[p]
          /\ pc[q] = "send_wait_space"

\* The condition thread p sleeps on is already false: there is space, or
\* its rendezvous item has been consumed
WaitIsOver(p) ==
    \/ pc[p] = "send_wait_space" /\ ~(Len(queue) >= bound /\ queue # <<>>)
    \/ pc[p] = "send_wait_handoff" /\ item[p] \in consumed

\* C14: blocked producers make progress.  While the consumer stays
\* connected and keeps dispatching, no producer stays asleep in a blocking
\* send for ever once the condition it waits on is false.
C14_BlockedProducersProgress ==
    \A p \in Producers :
        (BlockedInSend(p) /\ WaitIsOver(p)) ~> (~BlockedInSend(p) \/ ConsumerGone)

\* try_recv answers Disconnected and dispatch returns G_SOURCE_REMOVE
ReportsDisconnected == lpc = "recv" /\ lpc' = "remove"

\* Thread p holds no reference to the channel: no handle, and no drop that
\* has yet to release the channel
HoldsNoChannel(p) ==
    /\ handle[p] # "held"
    /\ pc[p] \in {"idle", "drop_ready", "drop_unref"}

\* C15: no item is lost on producer disconnection.  try_recv reports
\* Disconnected only with an empty queue and no producer handle left, and
\* at that moment every item ever enqueued (so every item whose send
\* returned Ok) has been passed to the callback, in order; no callback
\* asked to stop and the task was not destroyed before.
C15_NoItemLostOnDisconnect ==
    [][ReportsDisconnected =>
          /\ queue = <<>> /\ inHand = NoItem
          /\ NoProducerLeft
          /\ \A p \in Producers : HoldsNoChannel(p)
          /\ ended = "none" /\ ~gDestroyed
          /\ delivered = enqueued
          /\ \A p \in Producers : res[p] = "Ok" => item[p] \in Range(delivered)]_vars

\* Dispatch ended on Disconnected after delivering items of both kinds of
\* call, the last handle being dropped with items still queued
C15_Witness ==
    /\ ended = "Disconnected"
    /\ Len(delivered) >= 2
    /\ delivered = enqueued
    /\ \E p \in Producers : res[p] = "Ok" /\ item[p] \in Range(delivered)

\* C16: dropping a producer handle that is not the last one leaves the
\* readiness marker unchanged.
C16_NonLastDropKeepsMarker ==
    [][\A p \in Producers :
          (pc[p] = "drop_ready" /\ pc'[p] # "drop_ready" /\ ~NoProducerLeft)
              => ready_time' = ready_time]_vars

\* The consumer side leaves the queue and the callback alone in this step
ConsumerSilent ==
    /\ consumed' = consumed
    /\ delivered' = delivered
    /\ inHand' = inHand

\* C17: dispatch stops on callback request.  The step in which the
\* callback answers Continue(false) pops nothing and leads to the removal
\* of the source whatever is left in the queue; once a dispatch has asked
\* for removal (callback stop or Disconnected) dispatch is never inside its
\* loop again, nothing is popped and the callback is not called.
C17_DispatchStopsOnRequest ==
    [][/\ (lpc = "callback" /\ ended = "none" /\ ended' = "Stop")
            => (lpc' = "remove" /\ queue' = queue /\ consumed' = consumed)
       /\ ended # "none"
            => /\ ConsumerSilent
               /\ ended' = ended
               /\ lpc \in {"remove", "idle"} /\ lpc' \in {"remove", "idle"}
               /\ lpc' = "idle" => gDestroyed']_vars

\* The callback stopped the dispatch with an item left in the queue, and
\* the source has been removed
C17_Witness ==
    /\ ended = "Stop"
    /\ gDestroyed /\ lpc = "idle"
    /\ queue # <<>>
    /\ Len(delivered) = 1 /\ Len(enqueued) >= 2

\* finalize has done its work in this step
FinalizeDone == fin = "locked" /\ fin' = "done"

\* C18: finalize ends the consumer side.  finalize leaves the state
\* Destroyed, no thread asleep on the condition variable and no callback;
\* it has begun as soon as the source of an attached channel has lost its
\* last reference, dispatched or not; and from the state Destroyed on
\* nothing is popped and the callback is not called.
C18_FinalizeEndsConsumer ==
    [][/\ FinalizeDone
            => /\ source' = "Destroyed"
               /\ \A p \in Producers :
                     pc'[p] \notin {"send_wait_space", "send_wait_handoff",
                                    "try_wait_handoff"}
               /\ ~has_callback'
               /\ gDestroyed
       /\ (rx' \in {"attaching", "attached"} /\ gref' = 0)
            => (gDestroyed' /\ fin' # "none")
       /\ source = "Destroyed"
            => (ConsumerSilent /\ lpc' \notin {"recv_lock", "recv", "callback"})]_vars

\* finalize ran for a source that never delivered anything, and woke a
\* producer that was asleep in a blocking send
C18_Witness ==
    /\ fin = "done" /\ source = "Destroyed" /\ ~has_callback
    /\ consumed = {} /\ delivered = <<>>
    /\ \E p \in Producers : pc[p] \in {"send_woke_space", "send_woke_handoff"}

\* Receiver::drop has done its work in this step
ReceiverDropDone == lpc = "rdrop" /\ lpc' = "idle"

\* The step of thread p that ends a send or try_send
EndsCall(p) ==
    /\ pc[p] \in {"send_push", "try_push", "send_result", "try_result"}
    /\ pc'[p] # pc[p]

\* What a call of thread p that ends in the state Destroyed answers, gives
\* back and leaves in the queue, from what the producer itself can see
DestroyedOutcome(p) ==
    CASE pc[p] = "send_push" -> <<"Err", item[p], queue>>
      [] pc[p] = "try_push" ->
            IF Len(queue) >= bound /\ queue # <<>>
            THEN <<"Full", item[p], queue>>
            ELSE <<"Disconnected", item[p], queue>>
      [] pc[p] = "send_result" ->
            IF queue # <<>> THEN <<"Err", Head(queue), Tail(queue)>>
                            ELSE <<"Ok", ret[p], queue>>
      [] pc[p] = "try_result" ->
            IF queue # <<>> THEN <<"Disconnected", Head(queue), Tail(queue)>>
                            ELSE <<"Ok", ret[p], queue>>

\* C19: the two teardown paths look the same to producers.  The drop of a
\* Receiver that was never attached and the finalize of an attached source
\* both leave the state Destroyed, the queue as it was and every thread
\* that was asleep awake; and in the state Destroyed, whichever path led
\* there, no thread goes to sleep and every send and try_send ends at once
\* with a result fixed by the queue and the bound alone.
C19_TeardownPathsAgree ==
    [][/\ (ReceiverDropDone \/ FinalizeDone)
            => /\ source' = "Destroyed"
               /\ queue' = queue
               /\ \A p \in Producers : pc'[p] = Woken(pc[p])
       /\ source = "Destroyed"
            => \A p \in Producers :
                  /\ pc'[p] \in {"send_wait_space", "send_wait_handoff",
                                  "try_wait_handoff"} => pc'[p] = pc[p]
                  /\ EndsCall(p)
                        => /\ pc'[p] = "idle"
                           /\ <<res'[p], ret'[p], queue'>> = DestroyedOutcome(p)]_vars

\* A Receiver that was never attached was dropped while one thread waited
\* for space and another for its hand-off; both are awake
C19_Witness ==
    /\ rx = "dropped" /\ source = "Destroyed"
    /\ \E p, q \in Producers :
          /\ pc[p] = "send_woke_space"
          /\ pc[q] \in {"send_woke_handoff", "try_woke_handoff"}

\* The changes of the attachment state the code may make
AttachmentMoves ==
    {<<"NotAttached", "Attached">>, <<"Attached", "Destroyed">>,
     <<"NotAttached", "Destroyed">>}

\* C20: the attachment state is monotone.  It only moves NotAttached ->
\* Attached -> Destroyed or NotAttached -> Destroyed; it becomes Attached
\* only inside the one attach of the Receiver, an attached Receiver never
\* has the state NotAttached and a dropped one has the state Destroyed.
C20_AttachmentMonotone ==
    [][/\ source' # source => <<source, source'>> \in AttachmentMoves
       /\ (source' = "Attached" /\ source # "Attached")
            => (rx = "attaching" /\ lpc = "attach_setup")
       /\ rx = "attaching" => rx' \in {"attaching", "attached"}
       /\ rx = "attached" => rx' = "attached"
       /\ rx' = "held" => source' = "NotAttached"
       /\ rx' = "attached" => source' \in {"Attached", "Destroyed"}
       /\ rx' = "dropped" => source' = "Destroyed"]_vars

\* An attached channel went through Attached to Destroyed by finalize
C20_Witness ==
    /\ source = "Destroyed" /\ rx = "attached" /\ fin = "done"
    /\ Len(delivered) >= 1

\* dispatch fails its check of the thread in this step
DispatchPanics == lpc # "panicked" /\ lpc' = "panicked"

\* C21: the check of the thread comes first in dispatch.  A dispatch on a
\* thread other than the one recorded by attach panics without having
\* changed anything: the ready time is not cleared, nothing is popped and
\* the callback is not called.
C21_AffinityCheckFirst ==
    [][DispatchPanics =>
          /\ ready_time' = ready_time
          /\ queue' = queue
          /\ consumed' = consumed
          /\ delivered' = delivered]_vars

\* C22: the mutex of the queue is never held while the callback runs.
\* Whenever the loop thread is inside the callback it does not own the
\* mutex, so that a producer can take it.
C22_MutexFreeInCallback == lpc = "callback" => mutex # LoopThread

\* A producer holds the mutex inside send, just before its push, while
\* the callback runs with an item
C22_Witness ==
    /\ lpc = "callback" /\ inHand # NoItem
    /\ \E p \in Producers : mutex = p /\ pc[p] = "send_push"

\* attach stores the state Attached in this step
AttachStores == source # "Attached" /\ source' = "Attached"

\* C23: initial readiness at attach.  In the one step, under the mutex, in
\* which attach stores Attached, the ready time becomes 0 exactly when the
\* queue is not empty or no producer holds the channel, and -1 otherwise;
\* and from then on an idle, live, attached source whose queue is not
\* empty always has the ready time 0, so the items sent before attach are
\* dispatched with no further send.
C23_InitialReadiness ==
    [][/\ AttachStores
            => /\ mutex = LoopThread /\ source = "NotAttached"
               /\ ready_time' =
                     IF queue # <<>> \/ \A p \in Producers : HoldsNoChannel(p)
                     THEN 0 ELSE -1
               /\ queue' = queue
       /\ (lpc' \in {"idle", "attach_context"} /\ source' = "Attached"
             /\ ~gDestroyed' /\ queue' # <<>>)
            => ready_time' = 0]_vars

\* attach has just stored Attached with items in the queue that were sent
\* before, and producers still there: the source is ready
C23_Witness ==
    /\ lpc = "attach_context" /\ source = "Attached"
    /\ queue # <<>> /\ strong > 1
    /\ ready_time = 0
    /\ \A p \in Producers : pc[p] = "idle"

\* Thread p, inside the drop of its handle, takes its reference to the
\* source or sets the ready time of the source in this step
TouchesSource(p) == pc[p] \in {"drop_ref", "drop_ready"} /\ pc'[p] # pc[p]

\* C24: a producer never touches a finalized source.  Whenever the drop
\* of a handle takes a reference to the source, or sets its ready time,
\* the finalize of that source has not begun.
C24_NoTouchOfFinalizedSource ==
    [][\A p \in Producers : TouchesSource(p) => fin = "none"]_vars
====
